---- MODULE Spec2Model ----
(***************************************************************************)
(* Tensor-parallel integration of transformers                            *)
(* (src/transformers/integrations/tensor_parallel.py).                     *)
(*                                                                         *)
(* Tensors are records [shape, data, dtype, contiguous]: shape is the      *)
(* sequence of extents, data the elements in row-major order.  Axes are    *)
(* numbered from 1 in the helpers; the Python functions take Python dims   *)
(* (0-based, negative from the end) and resolve them as the indexing       *)
(* expressions of the source do.  A call's outcome is a record whose kind  *)
(* is "ok" or the name of the exception raised.                            *)
(***************************************************************************)
EXTENDS Integers, Sequences, FiniteSets, TLC

\* ------------------------------------------------------------------ bounds
MaxExtent == 4
MaxNdim == 4
MaxNumel == 16
MaxWorld == 2
MaxNameLen == 4
MaxKeyLen == 2
MaxExpectedLen == 3
MaxForwards == 3
MaxTotal == 8
MaxBlocks == 3
MaxWeight == 2

VARIABLES
    \* the partition / gather / repack pipeline of one parameter
    sh_param,      \* the full tensor read from the checkpoint
    sh_world,      \* device_mesh.size()
    sh_call,       \* the partitioner applied by every rank
    sh_shards,     \* rank -> outcome of its partition call, None before it
    sh_full,       \* outcome of the full-gather of the shards
    sh_repacked    \* outcome of repack_weights on the gathered tensor

shvars == <<sh_param, sh_world, sh_call, sh_shards, sh_full, sh_repacked>>

VARIABLES
    \* the model being materialised by shard_and_distribute_module
    tp_plan,       \* model._tp_plan: generic name -> style tag
    load,          \* rank, mesh size, target dtype and contiguity of the load
    hooks,         \* module -> its _forward_pre_hooks and _forward_hooks
    is_hooked,     \* module -> its _is_hooked flag
    applied,       \* module -> its _distribute_module_applied flag
    attrs,         \* module -> role -> the parameter set on it, None before
    ret            \* the last call: its parameter name and its outcome

mvars == <<tp_plan, load, hooks, is_hooked, applied, attrs, ret>>

VARIABLES
    \* the plan functions applied to arbitrary names and plans
    pl_plan,       \* the plan dict passed to the functions
    pl_plan0,      \* its contents when it was built
    pl_keys,       \* the parameter names at hand (expected_keys)
    pl_out         \* the last call: the function, its argument, its outcome

plvars == <<pl_plan, pl_plan0, pl_keys, pl_out>>

VARIABLES
    \* the forward executions of one hooked module on every rank of the mesh
    fw_cfg,        \* the style tag, the module's bias and inputs, per-rank products
    fw_mod,        \* the module: its bias and _bias attributes and its hooks
    fw_pc,         \* where the current forward execution stands
    fw_x,          \* the inputs after the pre-hooks, then the outputs
    fw_log,        \* what the current forward execution did to the output
    fw_count       \* forward executions started

fwvars == <<fw_cfg, fw_mod, fw_pc, fw_x, fw_log, fw_count>>

VARIABLES
    \* the block size calculator applied to arbitrary totals and blocks
    bk_in,         \* total_size and blocks
    bk_out         \* the last call: the function and its outcome

bkvars == <<bk_in, bk_out>>

vars == <<shvars, mvars, plvars, fwvars, bkvars>>

\* ------------------------------------------------------- generic helpers
RECURSIVE Prod(_)
Prod(s) == IF s = <<>> THEN 1 ELSE Head(s) * Prod(Tail(s))

RECURSIVE SumSeq(_)
SumSeq(s) == IF s = <<>> THEN 0 ELSE Head(s) + SumSeq(Tail(s))

Range(a, b) == [i \in 1..(IF b > a THEN b - a ELSE 0) |-> a + i - 1]

Min(a, b) == IF a < b THEN a ELSE b

\* row-major stride of axis k (1-based) in a tensor of the given shape
Stride(shape, k) == Prod(SubSeq(shape, k + 1, Len(shape)))

Unravel(shape, p) == [k \in 1..Len(shape) |-> (p \div Stride(shape, k)) % shape[k]]

Ravel(shape, c) == SumSeq([k \in 1..Len(shape) |-> c[k] * Stride(shape, k)])

Numel(shape) == Prod(shape)

Tensor(shape, data, dtype, contiguous) ==
    [shape |-> shape, data |-> data, dtype |-> dtype, contiguous |-> contiguous]

\* torch.arange(numel).reshape(shape): every element names its own position
Arange(shape, dtype) ==
    Tensor(shape, [q \in 1..Numel(shape) |-> q - 1], dtype, TRUE)

Ok(v) == [kind |-> "ok", value |-> v]
Raise(e) == [kind |-> e]
None == [kind |-> "None"]

\* t[..., idxs, ...] with the index list on axis k: advanced indexing copies
IndexSelect(t, k, idxs) ==
    LET s2 == [t.shape EXCEPT ![k] = Len(idxs)]
    IN Tensor(s2,
              [q \in 1..Numel(s2) |->
                  LET c == Unravel(s2, q - 1)
                  IN t.data[Ravel(t.shape, [c EXCEPT ![k] = idxs[c[k] + 1]]) + 1]],
              t.dtype, TRUE)

\* t[..., a:b, ...] on axis k: a slice clamps to the extent and is a view,
\* contiguous only when it keeps the whole axis or nothing varies before it
SliceAxis(t, k, a, b) ==
    LET n == t.shape[k]
        lo == Min(a, n)
        hi == Min(b, n)
        sel == IndexSelect(t, k, Range(lo, hi))
        whole == lo = 0 /\ hi = n
        leading == Prod(SubSeq(t.shape, 1, k - 1))
    IN [sel EXCEPT !.contiguous = t.contiguous /\ (whole \/ leading = 1 \/ hi <= lo)]

\* torch.cat of two tensors along axis k
Cat2(a, b, k) ==
    LET s2 == [a.shape EXCEPT ![k] = a.shape[k] + b.shape[k]]
    IN Tensor(s2,
              [q \in 1..Numel(s2) |->
                  LET c == Unravel(s2, q - 1)
                  IN IF c[k] < a.shape[k]
                       THEN a.data[Ravel(a.shape, c) + 1]
                       ELSE b.data[Ravel(b.shape, [c EXCEPT ![k] = c[k] - a.shape[k]]) + 1]],
              a.dtype, TRUE)

RECURSIVE CatSeq(_, _)
CatSeq(ts, k) ==
    IF Len(ts) = 1 THEN ts[1] ELSE Cat2(CatSeq(SubSeq(ts, 1, Len(ts) - 1), k), ts[Len(ts)], k)

\* torch.cat(ts, dim): the tensors must agree on every axis but the one joined
Cat(ts, k) ==
    IF \A i \in 1..Len(ts) :
          /\ Len(ts[i].shape) = Len(ts[1].shape)
          /\ k \in 1..Len(ts[i].shape)
          /\ \A j \in 1..Len(ts[i].shape) : j # k => ts[i].shape[j] = ts[1].shape[j]
      THEN Ok(CatSeq(ts, k))
      ELSE Raise("RuntimeError")

\* tensor.permute(*order): axis k of the result is axis order[k] of t
Permute(t, order) ==
    LET s2 == [k \in 1..Len(order) |-> t.shape[order[k]]]
        OldCoord(c) == [j \in 1..Len(order) |->
                          c[CHOOSE k \in 1..Len(order) : order[k] = j]]
    IN Tensor(s2,
              [q \in 1..Numel(s2) |-> t.data[Ravel(t.shape, OldCoord(Unravel(s2, q - 1))) + 1]],
              t.dtype, FALSE)

\* tensor.view(*shape) / reshape: same elements in row-major order
View(t, shape) == Tensor(shape, t.data, t.dtype, TRUE)

\* tensor.to(dtype): the element type changes, the layout is preserved; the
\* elements used here are small integers, exact in every floating type used
To(t, dtype) == [t EXCEPT !.dtype = dtype]

Contiguous(t) == [t EXCEPT !.contiguous = TRUE]

\* ------------------------------------------------ _blocks_to_block_sizes
\* blocks is an int (IntBlocks) or a list of ints (ListBlocks)
IntBlocks(n) == [int |-> n]
ListBlocks(w) == [list |-> w]

\* the calculator returning the proportions as they are given
blocks_to_block_sizes_unscaled(total_size, blocks) ==
    IF "list" \in DOMAIN blocks
      THEN LET total_blocks == SumSeq(blocks.list)
           IN IF total_blocks = 0 THEN Raise("ZeroDivisionError")
              ELSE IF total_size % total_blocks # 0 THEN Raise("AssertionError")
              ELSE Ok(blocks.list)
      ELSE IF blocks.int = 0 THEN Raise("ZeroDivisionError")
           ELSE IF total_size % blocks.int # 0 THEN Raise("AssertionError")
           ELSE Ok([i \in 1..blocks.int |-> 1])

\* the calculator without its two assert statements
blocks_to_block_sizes_unasserted(total_size, blocks) ==
    IF "list" \in DOMAIN blocks
      THEN LET total_blocks == SumSeq(blocks.list)
           IN IF total_blocks = 0 THEN Raise("ZeroDivisionError")
              ELSE Ok([i \in 1..Len(blocks.list) |->
                          (total_size \div total_blocks) * blocks.list[i]])
      ELSE IF blocks.int = 0 THEN Raise("ZeroDivisionError")
           ELSE Ok([i \in 1..blocks.int |-> total_size \div blocks.int])

blocks_to_block_sizes(total_size, blocks) ==
    IF "list" \in DOMAIN blocks
      THEN LET total_blocks == SumSeq(blocks.list)
           IN IF total_blocks = 0 THEN Raise("ZeroDivisionError")
              ELSE IF total_size % total_blocks # 0 THEN Raise("AssertionError")
              ELSE Ok([i \in 1..Len(blocks.list) |->
                          (total_size \div total_blocks) * blocks.list[i]])
      ELSE IF blocks.int = 0 THEN Raise("ZeroDivisionError")
           ELSE IF total_size % blocks.int # 0 THEN Raise("AssertionError")
           ELSE Ok([i \in 1..blocks.int |-> total_size \div blocks.int])

\* ------------------------------------------------------ str_to_torch_dtype
str_to_torch_dtype ==
    [BOOL |-> "torch.bool", U8 |-> "torch.uint8", I8 |-> "torch.int8",
     I16 |-> "torch.int16", F16 |-> "torch.float16", BF16 |-> "torch.bfloat16",
     I32 |-> "torch.int32", F32 |-> "torch.float32", F64 |-> "torch.float64",
     I64 |-> "torch.int64", F8_E4M3 |-> "torch.float8_e4m3fn"]

\* slice_.get_dtype(): the checkpoint's name of the element type
get_dtype(t) == CHOOSE k \in DOMAIN str_to_torch_dtype : str_to_torch_dtype[k] = t.dtype

\* shape[dim] of Python: the 1-based axis a Python dim names, 0 when out of range
PyAxis(ndim, dim) ==
    IF dim >= 0 /\ dim < ndim THEN dim + 1
    ELSE IF dim < 0 /\ dim >= -ndim THEN ndim + dim + 1
    ELSE 0

\* ----------------------------------------------------- get_packed_weights
\* the index list when block_offset is never advanced
PackedIndices_no_offset(block_sizes, world_size, rank) ==
    LET Part(i) == LET shard_block_size == block_sizes[i] \div world_size
                   IN Range(rank * shard_block_size, (rank + 1) * shard_block_size)
    IN Part(1) \o Part(2)

\* the index list built by the loop over the two blocks
PackedIndices(block_sizes, world_size, rank) ==
    LET Offset(i) == SumSeq(SubSeq(block_sizes, 1, i - 1))
        Part(i) == LET shard_block_size == block_sizes[i] \div world_size
                   IN Range(Offset(i) + rank * shard_block_size,
                            Offset(i) + (rank + 1) * shard_block_size)
    IN Part(1) \o Part(2)

get_packed_weights(param, empty_shape, world_size, rank, dim) ==
    LET ndim == Len(param.shape)
        ax == PyAxis(Len(empty_shape), dim)
        total_size == empty_shape[ax]
        bs == blocks_to_block_sizes(total_size, IntBlocks(2))
        tensors_slices == PackedIndices(bs.value, world_size, rank)
        slice_dtype == get_dtype(param)
        slice_ == IF slice_dtype = "F8_E4M3" THEN To(param, "torch.float16") ELSE param
        \* the axis the indexing expression of each branch addresses
        at == IF dim = 0 THEN 1
              ELSE IF dim = 1 \/ dim = -2 THEN 2
              ELSE ndim
        InRange == \A i \in 1..Len(tensors_slices) : tensors_slices[i] < param.shape[at]
    IN IF ax = 0 THEN Raise("IndexError")
       ELSE IF bs.kind # "ok" THEN bs
       ELSE IF dim \notin {0, 1, -2, 2, -1} THEN Raise("ValueError")
       ELSE IF at > ndim \/ ~InRange THEN Raise("IndexError")
       ELSE Ok(To(IndexSelect(slice_, at, tensors_slices), str_to_torch_dtype[slice_dtype]))

\* --------------------------------------------------------- repack_weights
repack_weights(packed_parameter, sharded_dim, world_size, num_blocks) ==
    LET ndim == Len(packed_parameter.shape)
        actual_sharded_dim == IF sharded_dim >= 0 THEN sharded_dim ELSE sharded_dim + ndim
        ax == actual_sharded_dim + 1
        total_size_on_sharded_dim == packed_parameter.shape[ax]
        original_block_size_on_dim == total_size_on_sharded_dim \div num_blocks
        shard_chunk_size == original_block_size_on_dim \div world_size
        prefix_shape == SubSeq(packed_parameter.shape, 1, ax - 1)
        suffix_shape == SubSeq(packed_parameter.shape, ax + 1, ndim)
        view_shape == prefix_shape \o <<world_size, num_blocks, shard_chunk_size>> \o suffix_shape
        tensor_view == View(packed_parameter, view_shape)
        axis_ws_abs == Len(prefix_shape) + 1
        axis_npp_abs == Len(prefix_shape) + 2
        permute_order == [k \in 1..Len(view_shape) |->
                            IF k = axis_ws_abs THEN axis_npp_abs
                            ELSE IF k = axis_npp_abs THEN axis_ws_abs
                            ELSE k]
        tensor_permuted == Permute(tensor_view, permute_order)
    IN IF num_blocks # 2 THEN Raise("ValueError")
       ELSE IF ax < 1 \/ ax > ndim THEN Raise("IndexError")
       ELSE IF Numel(view_shape) # Numel(packed_parameter.shape) THEN Raise("RuntimeError")
       ELSE Ok(View(tensor_permuted, packed_parameter.shape))

\* ------------------------------------------------------- get_tensor_shard
\* get_tensor_shard cutting the last axis whatever the dim
get_tensor_shard_last_axis(param, empty_shape, world_size, rank, dim) ==
    LET size_ == empty_shape[Len(empty_shape)]
    IN Ok(SliceAxis(param, Len(param.shape), rank * (size_ \div world_size),
                    (rank + 1) * (size_ \div world_size)))

get_tensor_shard(param, empty_shape, world_size, rank, dim) ==
    LET ndim == Len(param.shape)
        endim == Len(empty_shape)
        Cut(size_, k) == SliceAxis(param, k, rank * (size_ \div world_size),
                                   (rank + 1) * (size_ \div world_size))
    IN IF dim = 0
         THEN Ok(Cut(empty_shape[1], 1))
       ELSE IF dim = 1 \/ dim = -2
         THEN IF endim < 2 \/ ndim < 2 THEN Raise("IndexError")
              ELSE Ok(Cut(empty_shape[endim - 1], ndim - 1))
       ELSE IF dim = 2 \/ dim = -1
         THEN Ok(Cut(empty_shape[endim], ndim))
       ELSE Raise("ValueError")

\* ------------------------------------------------------ partition styles
\* translate_to_torch_parallel_style: the strategy instance of a style tag.
\* Layouts are the single placement of each one-element tuple.
Style(cls, input_layouts, output_layouts, desired_input_layouts, use_local_output, use_dtensor) ==
    [cls |-> cls, input_layouts |-> input_layouts, output_layouts |-> output_layouts,
     desired_input_layouts |-> desired_input_layouts,
     use_local_output |-> use_local_output, use_dtensor |-> use_dtensor]

ColwiseParallel(output_layouts, use_dtensor) ==
    Style("ColwiseParallel", "Replicate", output_layouts, "Replicate", TRUE, use_dtensor)

PackedColwiseParallel(use_dtensor) ==
    [ColwiseParallel("Shard(-1)", use_dtensor) EXCEPT !.cls = "PackedColwiseParallel"]

RowwiseParallel(input_layouts, use_dtensor) ==
    Style("RowwiseParallel", input_layouts, "Replicate", "unset", TRUE, use_dtensor)

PackedRowwiseParallel(use_dtensor) ==
    [RowwiseParallel("Shard(-1)", use_dtensor) EXCEPT !.cls = "PackedRowwiseParallel"]

GatherParallel == Style("GatherParallel", "Replicate", "None", "Replicate", TRUE, TRUE)

IsolatedParallel == Style("IsolatedParallel", "unset", "unset", "unset", "unset", TRUE)

SequenceParallel == Style("SequenceParallel", "Replicate", "Replicate", "Shard(1)", FALSE, TRUE)

SUPPORTED_TP_STYLES ==
    {"colwise", "rowwise", "colwise_rep", "rowwise_rep", "local_colwise", "local_rowwise",
     "local", "gather", "local_packed_rowwise", "sequence_parallel"}

translate_to_torch_parallel_style(style) ==
    IF style = "colwise" THEN Ok(ColwiseParallel("Shard(-1)", TRUE))
    ELSE IF style = "rowwise" THEN Ok(RowwiseParallel("Shard(-1)", TRUE))
    ELSE IF style = "colwise_rep" THEN Ok(ColwiseParallel("Replicate", TRUE))
    ELSE IF style = "rowwise_rep" THEN Ok(RowwiseParallel("Replicate", TRUE))
    ELSE IF style = "local_colwise" THEN Ok(ColwiseParallel("Shard(-1)", FALSE))
    ELSE IF style = "local_rowwise" THEN Ok(RowwiseParallel("Shard(-1)", FALSE))
    ELSE IF style = "local" THEN Ok(IsolatedParallel)
    ELSE IF style = "gather" THEN Ok(GatherParallel)
    ELSE IF style = "local_packed_rowwise" THEN Ok(PackedRowwiseParallel(FALSE))
    ELSE IF style = "sequence_parallel" THEN Ok(SequenceParallel)
    ELSE Raise("ValueError")

is_floating_point(t) ==
    t.dtype \in {"torch.float16", "torch.bfloat16", "torch.float32", "torch.float64",
                 "torch.float8_e4m3fn"}

\* nn.Parameter(tensor, requires_grad=tensor.is_floating_point()); placements
\* is the placement of the DTensor wrapping the local tensor, "local" without
Parameter(t, placements) ==
    [tensor |-> t, placements |-> placements, requires_grad |-> is_floating_point(t)]

\* the common tail of every partition_tensor: cast, contiguous, wrap
FinishPartition(self, sharded, shard, param_casting_dtype, to_contiguous) ==
    IF sharded.kind # "ok" THEN sharded
    ELSE LET cast == To(sharded.value, param_casting_dtype)
             parameter == IF to_contiguous THEN Contiguous(cast) ELSE cast
         IN Ok(Parameter(parameter, IF self.use_dtensor THEN shard ELSE "local"))

partition_tensor(self, param, empty_shape, param_type, param_casting_dtype, to_contiguous, rank, world_size) ==
    IF self.cls = "ColwiseParallel" THEN
        IF param_type = <<"bias">>
          THEN FinishPartition(self, get_tensor_shard(param, empty_shape, world_size, rank, -1),
                               "Shard(-1)", param_casting_dtype, to_contiguous)
          ELSE FinishPartition(self, get_tensor_shard(param, empty_shape, world_size, rank, -2),
                               "Shard(-2)", param_casting_dtype, to_contiguous)
    ELSE IF self.cls = "PackedColwiseParallel" THEN
        FinishPartition(self, get_packed_weights(param, empty_shape, world_size, rank, -2),
                        "Shard(-2)", param_casting_dtype, to_contiguous)
    ELSE IF self.cls = "RowwiseParallel" THEN
        IF param_type # <<"bias">>
          THEN FinishPartition(self, get_tensor_shard(param, empty_shape, world_size, rank, -1),
                               "Shard(-1)", param_casting_dtype, to_contiguous)
          ELSE FinishPartition(self, Ok(param), "Replicate", param_casting_dtype, to_contiguous)
    ELSE IF self.cls = "PackedRowwiseParallel" THEN
        FinishPartition(self, get_packed_weights(param, empty_shape, world_size, rank, -1),
                        "Shard(-1)", param_casting_dtype, to_contiguous)
    ELSE IF self.cls = "SequenceParallel" THEN
        FinishPartition(self, Ok(param), "Replicate", param_casting_dtype, to_contiguous)
    ELSE Raise("NotImplementedError")

\* the variables of the other specifications, at rest
MIdle ==
    /\ tp_plan = <<>> /\ load = None /\ hooks = <<>> /\ is_hooked = <<>>
    /\ applied = <<>> /\ attrs = <<>> /\ ret = None

PlIdle == pl_plan = None /\ pl_plan0 = None /\ pl_keys = {} /\ pl_out = None

ShIdle ==
    /\ sh_param = None /\ sh_world = 1 /\ sh_call = None
    /\ sh_shards = <<>> /\ sh_full = None /\ sh_repacked = None

BkIdle == bk_in = None /\ bk_out = None

FwIdle ==
    /\ fw_cfg = None /\ fw_mod = None /\ fw_pc = "idle"
    /\ fw_x = None /\ fw_log = <<>> /\ fw_count = 0

\* ------------------------------------------- partition, gather and repack
Shapes ==
    {s \in UNION {[1..n -> 1..MaxExtent] : n \in 1..MaxNdim} : Numel(s) <= MaxNumel}

Dims == -3..3

ParamDtypes == {"torch.float32", "torch.float8_e4m3fn"}
CastDtypes == {"torch.bfloat16", "torch.int8"}
\* the role of a parameter on its module, a name without a dot
ParamTypes == {<<"weight">>, <<"bias">>}

\* every strategy the module defines, PackedColwiseParallel included
Strategies ==
    {translate_to_torch_parallel_style(tag).value : tag \in SUPPORTED_TP_STYLES}
        \cup {PackedColwiseParallel(TRUE)}

Calls ==
    [fn : {"get_tensor_shard", "get_packed_weights"}, dim : Dims]
      \cup [fn : {"partition_tensor"}, self : Strategies, param_type : ParamTypes,
            param_casting_dtype : CastDtypes, to_contiguous : BOOLEAN]

ApplyCall(call, param, world_size, rank) ==
    IF call.fn = "get_tensor_shard"
      THEN get_tensor_shard(param, param.shape, world_size, rank, call.dim)
    ELSE IF call.fn = "get_packed_weights"
      THEN get_packed_weights(param, param.shape, world_size, rank, call.dim)
    ELSE partition_tensor(call.self, param, param.shape, call.param_type,
                          call.param_casting_dtype, call.to_contiguous, rank, world_size)

\* the local tensor of a shard
Local(v) == IF "tensor" \in DOMAIN v THEN v.tensor ELSE v

\* the Python dim the shards are laid out on: the dim of the call, or the
\* dim of the placement the style attaches (the style's axis when local)
CallDim(call) ==
    IF call.fn = "get_packed_weights" THEN call.dim
    ELSE IF call.fn = "get_tensor_shard"
      THEN (IF call.dim = 0 THEN 0 ELSE IF call.dim \in {1, -2} THEN -2 ELSE -1)
    ELSE IF call.self.cls \in {"ColwiseParallel", "PackedColwiseParallel"}
           /\ ~(call.self.cls = "ColwiseParallel" /\ call.param_type = <<"bias">>) THEN -2
    ELSE -1

Replicated(call) ==
    /\ call.fn = "partition_tensor"
    /\ \/ call.self.cls = "SequenceParallel"
       \/ call.self.cls = "RowwiseParallel" /\ call.param_type = <<"bias">>

ShInit ==
    /\ MIdle /\ PlIdle /\ FwIdle /\ BkIdle
    /\ sh_param \in {Arange(s, d) : s \in Shapes, d \in ParamDtypes}
    /\ sh_world \in 1..MaxWorld
    /\ sh_call \in Calls
    /\ sh_shards = [r \in 0..(sh_world - 1) |-> None]
    /\ sh_full = None
    /\ sh_repacked = None

\* rank r partitions the parameter
Partition(r) ==
    /\ sh_shards[r] = None
    /\ sh_shards' = [sh_shards EXCEPT ![r] = ApplyCall(sh_call, sh_param, sh_world, r)]
    /\ UNCHANGED <<sh_param, sh_world, sh_call, sh_full, sh_repacked>>

\* DTensor.full_tensor(): the shards of ranks 0..W-1 concatenated in rank
\* order along the sharded axis (a replicated parameter is any local copy)
FullGather ==
    /\ sh_full = None
    /\ \A r \in DOMAIN sh_shards : sh_shards[r].kind = "ok"
    /\ LET locals == [i \in 1..sh_world |-> Local(sh_shards[i - 1].value)]
           ax == PyAxis(Len(sh_param.shape), CallDim(sh_call))
       IN sh_full' = IF Replicated(sh_call) THEN Ok(locals[1]) ELSE Cat(locals, ax)
    /\ UNCHANGED <<sh_param, sh_world, sh_call, sh_shards, sh_repacked>>

Repack(num_blocks) ==
    /\ sh_full.kind = "ok"
    /\ sh_repacked = None
    /\ sh_repacked' = [num_blocks |-> num_blocks,
                        result |-> repack_weights(sh_full.value, CallDim(sh_call), sh_world,
                                                  num_blocks)]
    /\ UNCHANGED <<sh_param, sh_world, sh_call, sh_shards, sh_full>>

ShNext ==
    \/ \E r \in DOMAIN sh_shards : Partition(r)
    \/ FullGather
    \/ \E num_blocks \in {2, 3} : Repack(num_blocks)

SpecShard == ShInit /\ [][ShNext /\ UNCHANGED <<mvars, plvars, fwvars, bkvars>>]_vars

\* ------------------------------------------------------ parameter names
\* A name is the sequence of its pieces: a "." separator, a digit, or a run
\* of other characters, which no operation on names looks into.
Digits == {"0", "1", "2", "3", "4", "5", "6", "7", "8", "9"}

RECURSIVE DropDigits(_)
DropDigits(s) == IF s # <<>> /\ Head(s) \in Digits THEN DropDigits(Tail(s)) ELSE s

\* re.sub(r"\d+", "*", name)
RECURSIVE Generic(_)
Generic(s) ==
    IF s = <<>> THEN <<>>
    ELSE IF Head(s) \in Digits THEN <<"*">> \o Generic(DropDigits(Tail(s)))
    ELSE <<Head(s)>> \o Generic(Tail(s))

HasDot(s) == \E i \in 1..Len(s) : s[i] = "."

LastDot(s) == CHOOSE i \in 1..Len(s) : s[i] = "." /\ \A j \in (i + 1)..Len(s) : s[j] # "."

\* name.rsplit(".", 1) of a name that has a dot
RSplit(s) == <<SubSeq(s, 1, LastDot(s) - 1), SubSeq(s, LastDot(s) + 1, Len(s))>>

\* the number of characters of a name
PieceLen(c) == IF c = "weight" THEN 6 ELSE IF c = "bias" THEN 4 ELSE 1
StrLen(s) == SumSeq([i \in 1..Len(s) |-> PieceLen(s[i])])

\* a, b = name.rsplit(".", 1) if "." in name else name: a name without a dot
\* is unpacked character by character, which needs exactly two characters
SplitOrUnpack(s) ==
    IF HasDot(s) THEN Ok(RSplit(s))
    ELSE IF StrLen(s) = 2 THEN Ok(<<SubSeq(s, 1, 1), SubSeq(s, 2, 2)>>)
    ELSE Raise("ValueError")

\* ------------------------------------------------- _get_parameter_tp_plan
\* the resolver retrying on every ancestor, not only on the parent
RECURSIVE get_parameter_tp_plan_any_ancestor(_, _)
get_parameter_tp_plan_any_ancestor(parameter_name, plan) ==
    LET generic_param_name == Generic(parameter_name)
    IN IF generic_param_name \in DOMAIN plan THEN Ok(plan[generic_param_name])
       ELSE IF HasDot(generic_param_name)
         THEN get_parameter_tp_plan_any_ancestor(RSplit(generic_param_name)[1], plan)
       ELSE None

get_parameter_tp_plan(parameter_name, plan) ==
    LET generic_param_name == Generic(parameter_name)
    IN IF generic_param_name \in DOMAIN plan
         THEN Ok(plan[generic_param_name])
       ELSE IF HasDot(generic_param_name) /\ RSplit(generic_param_name)[1] \in DOMAIN plan
         THEN Ok(plan[RSplit(generic_param_name)[1]])
       ELSE None

\* ------------------------------------------------------ hook installation
\* the state of the modules a hook installation touches
HookState(h, a) == [hooks |-> h, applied |-> a]
Done(st) == [kind |-> "ok", st |-> st]
Failed(e, st) == [kind |-> e, st |-> st]

\* the pair of partials a style binds when it installs its hooks
HookOf(self, desired_input_layouts) ==
    [cls |-> self.cls, input_layouts |-> self.input_layouts,
     desired_input_layouts |-> desired_input_layouts,
     output_layouts |-> self.output_layouts, use_local_output |-> self.use_local_output]

\* distribute_module without the test of _forward_pre_hooks
distribute_module_unguarded(st, m, hook) ==
    [st EXCEPT !.hooks[m] = [pre |-> Append(@.pre, hook), fwd |-> Append(@.fwd, hook)]]

\* input_fn and output_fn are never None at the call sites of this module
distribute_module(st, m, hook) ==
    IF Len(st.hooks[m].pre) = 0
      THEN [st EXCEPT !.hooks[m] = [pre |-> Append(@.pre, hook), fwd |-> Append(@.fwd, hook)]]
      ELSE st

prepare_module_tp(self, st, m, kind) ==
    IF self.cls \in {"RowwiseParallel", "PackedRowwiseParallel"} THEN
        LET st1 == [st EXCEPT !.applied[m] = TRUE]
        IN IF ~self.use_dtensor THEN Done(st1)
           ELSE IF kind = "Linear" THEN Done(distribute_module(st1, m, HookOf(self, "Shard(-1)")))
           ELSE IF kind = "Embedding" THEN Done(distribute_module(st1, m, HookOf(self, "Replicate")))
           ELSE IF kind = "Parameter" THEN Done(distribute_module(st1, m, HookOf(self, "Shard(-1)")))
           ELSE Failed("NotImplementedError", st1)
    ELSE IF self.cls = "IsolatedParallel" THEN
        Done(distribute_module(st, m, [HookOf(self, "None") EXCEPT
                                         !.input_layouts = "None", !.output_layouts = "None",
                                         !.use_local_output = "None"]))
    ELSE IF self.use_dtensor THEN
        Done(distribute_module(st, m, HookOf(self, self.desired_input_layouts)))
    ELSE Done(st)

\* kinds: module path -> the class of the module (model.get_submodule)
add_tensor_parallel_hooks_to_module(kinds, st, plan, layer_name, current_module_plan) ==
    LET \* 1. hooks on the layer being loaded; "not implemented" is printed
        own_layer == translate_to_torch_parallel_style(current_module_plan.value)
        own == prepare_module_tp(own_layer.value, st, layer_name, kinds[layer_name])
        st1 == IF current_module_plan # None THEN own.st ELSE st
        \* 2. hooks on the parent module when the plan names it
        parent_layer_name == RSplit(layer_name)[1]
        generic_name == Generic(parent_layer_name)
        parent_layer == translate_to_torch_parallel_style(plan[generic_name])
    IN IF current_module_plan # None /\ own_layer.kind # "ok" THEN Failed(own_layer.kind, st)
       ELSE IF ~HasDot(layer_name) \/ generic_name \notin DOMAIN plan THEN Done(st1)
       ELSE IF parent_layer.kind # "ok" THEN Failed(parent_layer.kind, st1)
       ELSE IF parent_layer_name \notin DOMAIN kinds THEN Failed("AttributeError", st1)
       ELSE prepare_module_tp(parent_layer.value, st1, parent_layer_name,
                              kinds[parent_layer_name])

\* ------------------------------------------- shard_and_distribute_module
\* the outcome of one call: what it returns or raises, and the module state
\* it leaves (hooks, flags and attributes set before a raise stay set)
CallResult(result, st, hooked, at) ==
    [result |-> result, st |-> st, is_hooked |-> hooked, attrs |-> at]

\* the no-plan branch: the whole tensor, cast, contiguous when requested
CastOnly(param, param_casting_dtype, is_contiguous) ==
    LET cast == To(param, param_casting_dtype)
    IN IF is_contiguous THEN Contiguous(cast) ELSE cast

shard_and_distribute_module(kinds, plan, st, hooked, at, param, empty_shape, parameter_name, param_casting_dtype, is_contiguous, rank, world_size) ==
    LET split == SplitOrUnpack(parameter_name)
        param_name == split.value[1]
        param_type == split.value[2]
        current_module_plan == get_parameter_tp_plan(parameter_name, plan)
        \* Add hooks to the module if not done yet
        added == IF ~hooked[param_name]
                   THEN add_tensor_parallel_hooks_to_module(kinds, st, plan, param_name,
                                                             current_module_plan)
                   ELSE Done(st)
        hooked1 == [hooked EXCEPT ![param_name] = TRUE]
        tp_layer == translate_to_torch_parallel_style(current_module_plan.value)
        part == partition_tensor(tp_layer.value, param, empty_shape, param_type,
                                 param_casting_dtype, is_contiguous, rank, world_size)
        \* the value of param after the if/else, before it is wrapped
        new == IF current_module_plan # None
                 THEN (IF tp_layer.kind # "ok" THEN tp_layer
                       ELSE IF part.kind = "NotImplementedError" THEN Ok(param)
                       ELSE part)
                 ELSE Ok(CastOnly(param, param_casting_dtype, is_contiguous))
        wrapped == IF "tensor" \in DOMAIN new.value THEN new.value
                   ELSE Parameter(new.value, "local")
    IN IF split.kind # "ok" THEN CallResult(split, st, hooked, at)
       ELSE IF param_name \notin DOMAIN kinds
         THEN CallResult(Raise("AttributeError"), st, hooked, at)
       ELSE IF added.kind # "ok" THEN CallResult(Raise(added.kind), added.st, hooked, at)
       ELSE IF new.kind # "ok" THEN CallResult(new, added.st, hooked1, at)
       ELSE CallResult(Ok(wrapped), added.st, hooked1,
                       [at EXCEPT ![param_name][param_type] = wrapped])

\* ------------------------------------------------------- the loaded model
\* module path -> class: a container that owns a fused parameter, and a
\* linear layer inside it
ModelModules ==
    (<<"b">> :> "ModuleList") @@ (<<"b", ".", "0">> :> "Linear")

\* parameter name -> the full tensor of the checkpoint
ModelParams ==
    (<<"b", ".", "weight">> :> Arange(<<2, 4>>, "torch.float32"))
        @@ (<<"b", ".", "0", ".", "weight">> :> Arange(<<2, 4>>, "torch.float32"))
        @@ (<<"b", ".", "0", ".", "bias">> :> Arange(<<4>>, "torch.float32"))

PlanKeys == {<<"b">>, <<"b", ".", "*">>, <<"b", ".", "*", ".", "weight">>}

Plans == UNION {[K -> SUPPORTED_TP_STYLES] : K \in SUBSET PlanKeys}

\* the checkpoint is float32 and is loaded as bfloat16 on a mesh of MaxWorld
Loads ==
    [rank : 0..(MaxWorld - 1), world_size : {MaxWorld},
     param_casting_dtype : {"torch.bfloat16"}, is_contiguous : BOOLEAN]

MInit ==
    /\ tp_plan \in Plans
    /\ load \in Loads
    /\ hooks = [m \in DOMAIN ModelModules |-> [pre |-> <<>>, fwd |-> <<>>]]
    /\ is_hooked = [m \in DOMAIN ModelModules |-> FALSE]
    /\ applied = [m \in DOMAIN ModelModules |-> FALSE]
    /\ attrs = [m \in DOMAIN ModelModules |-> [t \in ParamTypes |-> None]]
    /\ ret = None

\* one call of shard_and_distribute_module for a parameter of the model
ShardAndDistribute(parameter_name) ==
    LET r == shard_and_distribute_module(
                 ModelModules, tp_plan, HookState(hooks, applied), is_hooked, attrs,
                 ModelParams[parameter_name], ModelParams[parameter_name].shape,
                 parameter_name, load.param_casting_dtype, load.is_contiguous,
                 load.rank, load.world_size)
    IN /\ hooks' = r.st.hooks
       /\ applied' = r.st.applied
       /\ is_hooked' = r.is_hooked
       /\ attrs' = r.attrs
       /\ ret' = [parameter_name |-> parameter_name, result |-> r.result]
       /\ UNCHANGED <<tp_plan, load>>

MNext == \E parameter_name \in DOMAIN ModelParams : ShardAndDistribute(parameter_name)

\* ------------------------------------------- the block size calculator
\* a block count, or a list of proportions
BlockArgs ==
    {IntBlocks(n) : n \in 0..MaxBlocks}
        \cup {ListBlocks(w) : w \in UNION {[1..n -> 0..MaxWeight] : n \in 0..MaxBlocks}}

BkInit ==
    /\ MIdle /\ ShIdle /\ PlIdle /\ FwIdle
    /\ bk_in \in [total_size : 1..MaxTotal, blocks : BlockArgs]
    /\ bk_out = None

\* _blocks_to_block_sizes(total_size, blocks)
BlocksToBlockSizes ==
    /\ bk_out' = [fn |-> "_blocks_to_block_sizes",
                  result |-> blocks_to_block_sizes(bk_in.total_size, bk_in.blocks)]
    /\ UNCHANGED bk_in

\* get_packed_weights on a vector of total_size elements packed along dim 0
GetPackedWeights(world_size, rank) ==
    /\ bk_out' = [fn |-> "get_packed_weights", world_size |-> world_size, rank |-> rank,
                  result |-> get_packed_weights(Arange(<<bk_in.total_size>>, "torch.float32"),
                                                <<bk_in.total_size>>, world_size, rank, 0)]
    /\ UNCHANGED bk_in

BkNext ==
    \/ BlocksToBlockSizes
    \/ \E world_size \in 1..MaxWorld : \E rank \in 0..(world_size - 1) :
          GetPackedWeights(world_size, rank)

SpecBlocks == BkInit /\ [][BkNext /\ UNCHANGED <<shvars, mvars, plvars, fwvars>>]_vars

BlocksCalled == bk_out # None /\ bk_out.fn = "_blocks_to_block_sizes"

\* C15: for a positive total and a block count c dividing it the calculator
\* returns c blocks of total/c; for a list of weights whose sum divides the
\* total it returns weight_i * (total/sum) for every i in input order; in
\* both forms the sizes returned sum to the total.
C15_BlockSizes ==
    BlocksCalled =>
        LET total == bk_in.total_size
            blocks == bk_in.blocks
            sizes == bk_out.result.value
        IN /\ ("int" \in DOMAIN blocks /\ blocks.int > 0 /\ total % blocks.int = 0) =>
                 /\ bk_out.result.kind = "ok"
                 /\ Len(sizes) = blocks.int
                 /\ \A i \in 1..Len(sizes) : sizes[i] * blocks.int = total
                 /\ SumSeq(sizes) = total
           /\ ("list" \in DOMAIN blocks /\ SumSeq(blocks.list) > 0
                  /\ total % SumSeq(blocks.list) = 0) =>
                 /\ bk_out.result.kind = "ok"
                 /\ Len(sizes) = Len(blocks.list)
                 /\ \A i \in 1..Len(sizes) :
                       sizes[i] * SumSeq(blocks.list) = blocks.list[i] * total
                 /\ SumSeq(sizes) = total

\* 8 split in the proportions 2 : 1 : 1
C15_Witness ==
    /\ BlocksCalled
    /\ bk_in = [total_size |-> 8, blocks |-> ListBlocks(<<2, 1, 1>>)]
    /\ bk_out.result = Ok(<<4, 2, 2>>)

\* C16: when the total is not divisible by the block count, or by the sum of
\* the weights, the calculator fails with an assertion error and returns no
\* block sizes; get_packed_weights therefore fails on a packed axis of odd
\* extent.
C16_NonDivisibleAsserts ==
    /\ BlocksCalled =>
          LET total == bk_in.total_size
              blocks == bk_in.blocks
          IN /\ ("int" \in DOMAIN blocks /\ blocks.int > 0 /\ total % blocks.int # 0) =>
                   bk_out.result = Raise("AssertionError")
             /\ ("list" \in DOMAIN blocks /\ SumSeq(blocks.list) > 0
                    /\ total % SumSeq(blocks.list) # 0) =>
                   bk_out.result = Raise("AssertionError")
    /\ (bk_out # None /\ bk_out.fn = "get_packed_weights" /\ bk_in.total_size % 2 = 1) =>
          bk_out.result = Raise("AssertionError")

\* a vector of 3 elements handed to get_packed_weights
C16_Witness ==
    /\ bk_out # None /\ bk_out.fn = "get_packed_weights"
    /\ bk_in.total_size = 3
    /\ bk_out.result.kind = "AssertionError"

\* ------------------------------------------- forward execution with hooks
\* A tensor flowing through a forward execution is [dtensor, placements,
\* local]: local maps every rank to its local value (a number standing for
\* the whole local tensor); a Partial DTensor stands for the sum of them.
\* A bias attribute is <<>> when it is None or absent, <<b>> when it holds b.
Flow(dtensor, placements, local) ==
    [dtensor |-> dtensor, placements |-> placements, local |-> local]

RECURSIVE SumRanks(_, _)
SumRanks(local, n) == IF n = 0 THEN 0 ELSE local[n - 1] + SumRanks(local, n - 1)

\* DTensor.redistribute of an output to Replicate: a Partial is all-reduced
redistribute(t, placements) ==
    IF t.placements = "Partial" /\ placements = "Replicate"
      THEN Flow(TRUE, placements,
                [r \in DOMAIN t.local |-> SumRanks(t.local, Cardinality(DOMAIN t.local))])
      ELSE Flow(TRUE, placements, t.local)

\* the state a forward execution threads through the hooks
FwState(mod, x, log) == [mod |-> mod, x |-> x, log |-> log]

\* RowwiseParallel._prepare_input_fn leaving the bias on the module
RowwiseParallel_prepare_input_fn_keeps_bias(hook, f) ==
    LET input_tensor == IF f.x.dtensor THEN f.x
                        ELSE Flow(TRUE, hook.input_layouts, f.x.local)
    IN [f EXCEPT !.x = IF hook.input_layouts # hook.desired_input_layouts
                         THEN [input_tensor EXCEPT !.placements = hook.desired_input_layouts]
                         ELSE input_tensor]

RowwiseParallel_prepare_input_fn(hook, f) ==
    LET mod1 == IF f.mod.bias # <<>>
                  THEN [f.mod EXCEPT !._bias = f.mod.bias, !.bias = <<>>]
                  ELSE f.mod
        input_tensor == IF f.x.dtensor THEN f.x
                        ELSE Flow(TRUE, hook.input_layouts, f.x.local)
    IN [f EXCEPT !.mod = mod1,
                 !.x = IF hook.input_layouts # hook.desired_input_layouts
                         THEN [input_tensor EXCEPT !.placements = hook.desired_input_layouts]
                         ELSE input_tensor]

RowwiseParallel_prepare_output_fn(hook, f) ==
    LET reduced == IF f.x.placements # hook.output_layouts
                     THEN [f EXCEPT !.x = redistribute(f.x, hook.output_layouts),
                                    !.log = Append(f.log, "redistribute")]
                     ELSE f
        biased == IF reduced.mod._bias # <<>>
                    THEN [reduced EXCEPT
                            !.x.local = [r \in DOMAIN @ |-> @[r] + reduced.mod._bias[1]],
                            !.log = Append(reduced.log, "add _bias")]
                    ELSE reduced
    IN [biased EXCEPT !.x.dtensor = ~hook.use_local_output]

\* module._forward_pre_hooks and module._forward_hooks called in order
RECURSIVE RunPreHooks(_, _)
RunPreHooks(hs, f) ==
    IF hs = <<>> THEN f ELSE RunPreHooks(Tail(hs), RowwiseParallel_prepare_input_fn(Head(hs), f))

RECURSIVE RunForwardHooks(_, _)
RunForwardHooks(hs, f) ==
    IF hs = <<>> THEN f ELSE RunForwardHooks(Tail(hs), RowwiseParallel_prepare_output_fn(Head(hs), f))

\* nn.Linear.forward on a row-sharded weight: every rank holds the product
\* of its input columns with its weight columns, a Partial output; a bias
\* still on the module is added by every rank
LinearForward(f, products) ==
    [f EXCEPT !.x = Flow(TRUE, "Partial",
                         [r \in DOMAIN products |->
                             products[r] + (IF f.mod.bias # <<>> THEN f.mod.bias[1] ELSE 0)]),
              !.log = Append(f.log, IF f.mod.bias # <<>> THEN "linear with bias" ELSE "linear")]

\* the row shard styles that install hooks
RowTags == {"rowwise", "rowwise_rep"}

FwConfigs ==
    [tag : RowTags, bias : {<<>>, <<1>>, <<2>>}, dtensor_input : BOOLEAN,
     products : [0..(MaxWorld - 1) -> 0..1]]

\* the linear layer after prepare_module_tp of its style, its bias loaded
FwInit ==
    /\ MIdle /\ ShIdle /\ PlIdle /\ BkIdle
    /\ fw_cfg \in FwConfigs
    /\ LET m == <<"b", ".", "0">>
           st0 == HookState([k \in {m} |-> [pre |-> <<>>, fwd |-> <<>>]], [k \in {m} |-> FALSE])
           st == prepare_module_tp(translate_to_torch_parallel_style(fw_cfg.tag).value,
                                   st0, m, "Linear").st
       IN fw_mod = [bias |-> fw_cfg.bias, _bias |-> <<>>,
                    pre |-> st.hooks[m].pre, fwd |-> st.hooks[m].fwd]
    /\ fw_pc = "idle"
    /\ fw_x = None
    /\ fw_log = <<>>
    /\ fw_count = 0

\* module(inputs): the pre-hooks run on the inputs
ForwardPre ==
    /\ fw_pc \in {"idle", "done"}
    /\ fw_count < MaxForwards
    /\ LET input == Flow(fw_cfg.dtensor_input,
                         IF fw_cfg.dtensor_input THEN fw_mod.pre[1].input_layouts ELSE "local",
                         [r \in 0..(MaxWorld - 1) |-> 0])
           f == RunPreHooks(fw_mod.pre, FwState([bias |-> fw_mod.bias, _bias |-> fw_mod._bias],
                                                input, <<>>))
       IN /\ fw_mod' = [fw_mod EXCEPT !.bias = f.mod.bias, !._bias = f.mod._bias]
          /\ fw_x' = f.x
          /\ fw_log' = f.log
    /\ fw_pc' = "pre"
    /\ fw_count' = fw_count + 1
    /\ UNCHANGED fw_cfg

\* the module's own forward
ForwardCompute ==
    /\ fw_pc = "pre"
    /\ LET f == LinearForward(FwState([bias |-> fw_mod.bias, _bias |-> fw_mod._bias],
                                      fw_x, fw_log), fw_cfg.products)
       IN fw_x' = f.x /\ fw_log' = f.log
    /\ fw_pc' = "computed"
    /\ UNCHANGED <<fw_cfg, fw_mod, fw_count>>

\* the forward hooks run on the outputs, which the call then returns
ForwardPost ==
    /\ fw_pc = "computed"
    /\ LET f == RunForwardHooks(fw_mod.fwd, FwState([bias |-> fw_mod.bias, _bias |-> fw_mod._bias],
                                                    fw_x, fw_log))
       IN fw_x' = f.x /\ fw_log' = f.log
    /\ fw_pc' = "done"
    /\ UNCHANGED <<fw_cfg, fw_mod, fw_count>>

FwNext == ForwardPre \/ ForwardCompute \/ ForwardPost

SpecForward == FwInit /\ [][FwNext /\ UNCHANGED <<shvars, mvars, plvars, bkvars>>]_vars

\* C14: a module hooked with a row shard style that has a bias computes, in
\* every forward execution, with its bias detached; the output is reduced
\* first and the bias is then added exactly once, so every rank returns the
\* sum of the per-rank products plus one bias.
C14_BiasOnceAfterReduce ==
    fw_cfg # None /\ fw_cfg.bias # <<>> =>
        /\ fw_pc \in {"pre", "computed"} => fw_mod.bias = <<>>
        /\ fw_pc = "computed" => fw_log = <<"linear">>
        /\ fw_pc = "done" =>
              /\ fw_log = <<"linear", "redistribute", "add _bias">>
              /\ \A r \in DOMAIN fw_x.local :
                    fw_x.local[r] = SumRanks(fw_cfg.products, MaxWorld) + fw_cfg.bias[1]

\* the third forward execution in a row has returned, every rank's product 1
C14_Witness ==
    /\ fw_cfg # None /\ fw_cfg.bias = <<2>>
    /\ fw_cfg.products = [r \in 0..(MaxWorld - 1) |-> 1]
    /\ fw_count = MaxForwards
    /\ fw_pc = "done"
    /\ fw_x.local[0] = MaxWorld + 2

\* ---------------------------------------------- properties of the shards
ShNdim == Len(sh_param.shape)
ShAxis == PyAxis(ShNdim, CallDim(sh_call))
SameValues(t, u) == t.shape = u.shape /\ t.data = u.data

\* the extent of the axis a raw partitioner call is to shard
RawCall ==
    /\ sh_call.fn \in {"get_tensor_shard", "get_packed_weights"}
    /\ sh_call.dim \in {0, 1, 2, -1, -2}
    /\ ShAxis # 0

\* the sharded extent (a logical block, for a packed parameter) does not
\* divide evenly over the mesh
NonDivisible ==
    /\ RawCall
    /\ LET n == sh_param.shape[ShAxis]
       IN IF sh_call.fn = "get_tensor_shard" THEN n % sh_world # 0
          ELSE n % 2 = 0 /\ (n \div 2) % sh_world # 0

\* C5: when the extent of the sharded axis (get_tensor_shard) or a logical
\* block of a packed parameter (get_packed_weights) is not evenly divisible
\* by the mesh size, the partition call of every rank fails; it never
\* returns a shard.
C5_NonDivisibleFails ==
    NonDivisible => \A r \in DOMAIN sh_shards : sh_shards[r].kind # "ok"

\* C6: column shard.  A weight of shape (H, D) with W dividing H gives rank
\* r the rows r*H/W .. (r+1)*H/W-1 in shape (H/W, D); a bias of length D
\* with W dividing D gives shards of length D/W; the shards concatenated in
\* rank order along the sharded axis have the shape and the values of the
\* original tensor.
ColumnCase ==
    /\ sh_call.fn = "partition_tensor"
    /\ sh_call.self.cls = "ColwiseParallel"
    /\ \/ sh_call.param_type = <<"weight">> /\ ShNdim = 2 /\ sh_param.shape[1] % sh_world = 0
       \/ sh_call.param_type = <<"bias">> /\ ShNdim = 1 /\ sh_param.shape[1] % sh_world = 0

C6_ColumnShard ==
    ColumnCase =>
        LET n == sh_param.shape[1] \div sh_world
            Expected(r) == IndexSelect(sh_param, 1, Range(r * n, (r + 1) * n))
        IN /\ \A r \in DOMAIN sh_shards :
                sh_shards[r] # None =>
                    /\ sh_shards[r].kind = "ok"
                    /\ Local(sh_shards[r].value).shape = [sh_param.shape EXCEPT ![1] = n]
                    /\ SameValues(Local(sh_shards[r].value), Expected(r))
           /\ sh_full # None => sh_full.kind = "ok" /\ SameValues(sh_full.value, sh_param)

C6_Witness ==
    /\ ColumnCase
    /\ sh_call.param_type = <<"weight">>
    /\ sh_world = 2
    /\ sh_param.shape = <<4, 2>>
    /\ sh_full.kind = "ok"

\* a packed parameter of two equal blocks, each divisible by the mesh size
PackedDivisible(ax) ==
    /\ ax # 0
    /\ sh_param.shape[ax] % 2 = 0
    /\ (sh_param.shape[ax] \div 2) % sh_world = 0

\* C7: repack is the left inverse of partition followed by full-gather.  For
\* a packed tensor T of two equal blocks and W dividing each block, the
\* get_packed_weights shards of ranks 0..W-1 concatenated in rank order along
\* the sharded axis and repacked with num_blocks = 2 are exactly T.
C7_RepackInvertsPartition ==
    (/\ sh_call.fn = "get_packed_weights"
     /\ sh_call.dim \in {0, 1, 2, -1, -2}
     /\ PackedDivisible(ShAxis)) =>
        /\ \A r \in DOMAIN sh_shards : sh_shards[r] # None => sh_shards[r].kind = "ok"
        /\ sh_full # None => sh_full.kind = "ok"
        /\ (sh_repacked # None /\ sh_repacked.num_blocks = 2) =>
              /\ sh_repacked.result.kind = "ok"
              /\ sh_repacked.result.value = sh_param

\* the packed shards taken along the last axis or along axis 0
PackedLastOrFirst ==
    \/ sh_call.fn = "get_packed_weights" /\ sh_call.dim \in {0, -1}
    \/ sh_call.fn = "partition_tensor" /\ sh_call.self.cls = "PackedRowwiseParallel"

\* C8 as stated: the packed shards of every rank concatenated in rank order
\* along the sharded axis are the original tensor, with no repacking step
\* (stated for the last axis, the axis of the packed row shard).
C8_ConcatReconstructs ==
    (/\ PackedLastOrFirst
     /\ CallDim(sh_call) = -1
     /\ PackedDivisible(ShAxis)
     /\ sh_full # None) => sh_full.kind = "ok" /\ SameValues(sh_full.value, sh_param)

\* C8 amended: the packed shards of every rank taken along dim 0 or -1 and
\* concatenated in rank order along that axis are the original tensor in
\* rank-major interleaved order: index w*2c + b*c + j of the sharded axis
\* holds index b*W*c + w*c + j of the original (c the block size over W);
\* this is the original tensor when the mesh size is 1.
C8_ConcatInterleaves ==
    (/\ PackedLastOrFirst
     /\ PackedDivisible(ShAxis)
     /\ sh_full # None) =>
        LET c == (sh_param.shape[ShAxis] \div 2) \div sh_world
            Interleaved == [i \in 1..sh_param.shape[ShAxis] |->
                              LET w == (i - 1) \div (2 * c)
                                  b == ((i - 1) \div c) % 2
                                  j == (i - 1) % c
                              IN b * sh_world * c + w * c + j]
        IN /\ sh_full.kind = "ok"
           /\ SameValues(sh_full.value, IndexSelect(sh_param, ShAxis, Interleaved))
           /\ sh_world = 1 => SameValues(sh_full.value, sh_param)

C8_Witness ==
    /\ sh_call.fn = "partition_tensor"
    /\ sh_call.self.cls = "PackedRowwiseParallel"
    /\ sh_world = 2
    /\ sh_param.shape = <<2, 4>>
    /\ sh_full.kind = "ok"
    /\ ~SameValues(sh_full.value, sh_param)

\* the style a packed style derives from
BaseStyle(self) ==
    [self EXCEPT !.cls = IF self.cls = "PackedRowwiseParallel" THEN "RowwiseParallel"
                         ELSE "ColwiseParallel"]

\* C17: the packed styles treat a "bias" as their base styles do: packed row
\* shard leaves it replicated and whole, packed column shard shards it along
\* its last axis; only a weight goes through get_packed_weights.
C17_PackedBiasAsBase ==
    (/\ sh_call.fn = "partition_tensor"
     /\ sh_call.self.cls \in {"PackedRowwiseParallel", "PackedColwiseParallel"}
     /\ sh_call.param_type = <<"bias">>) =>
        \A r \in DOMAIN sh_shards :
            sh_shards[r] # None =>
                sh_shards[r] = partition_tensor(BaseStyle(sh_call.self), sh_param, sh_param.shape,
                                                sh_call.param_type, sh_call.param_casting_dtype,
                                                sh_call.to_contiguous, r, sh_world)

\* C18: get_packed_weights indexes the axis whose extent it measured.  For a
\* supported dim that the tensor has and an even extent n of that axis, rank
\* r gets, along axis dim, the indices b*(n/2) + r*c .. b*(n/2) + (r+1)*c - 1
\* of block b = 0 then b = 1 (c the block size over the mesh size), every
\* other axis whole.
C18_PackedSameAxis ==
    (/\ sh_call.fn = "get_packed_weights"
     /\ sh_call.dim \in {0, 1, 2, -1, -2}
     /\ ShAxis # 0
     /\ sh_param.shape[ShAxis] % 2 = 0) =>
        \A r \in DOMAIN sh_shards :
            sh_shards[r] # None =>
                LET half == sh_param.shape[ShAxis] \div 2
                    c == half \div sh_world
                    idxs == [i \in 1..(2 * c) |->
                               IF i <= c THEN r * c + (i - 1) ELSE half + r * c + (i - c - 1)]
                IN /\ sh_shards[r].kind = "ok"
                   /\ SameValues(sh_shards[r].value, IndexSelect(sh_param, ShAxis, idxs))

\* --------------------------------------------------------- verify_tp_plan
\* the loop over generic_keys in the order the set yields them; unused_rules
\* is the plan itself, so a pop removes the rule from the plan
RECURSIVE VerifyLoop(_, _, _)
VerifyLoop(order, plan, unsharded_layers) ==
    IF order = <<>>
      THEN [kind |-> "ok", plan |-> plan, unsharded_layers |-> unsharded_layers]
    ELSE LET key == Head(order)
             split == SplitOrUnpack(key)
             generic_param_name == Generic(split.value[1])
             parent_param_name == RSplit(generic_param_name)[1]
             Pop(k) == [j \in DOMAIN plan \ {k} |-> plan[j]]
         IN IF split.kind # "ok"
              THEN [kind |-> split.kind, plan |-> plan, unsharded_layers |-> unsharded_layers]
            ELSE IF generic_param_name \in DOMAIN plan
              THEN VerifyLoop(Tail(order), Pop(generic_param_name), unsharded_layers \ {key})
            ELSE IF HasDot(generic_param_name) /\ parent_param_name \in DOMAIN plan
              THEN VerifyLoop(Tail(order), Pop(parent_param_name), unsharded_layers \ {key})
            ELSE VerifyLoop(Tail(order), plan, unsharded_layers)

\* order: the iteration order of the set generic_keys.  The outcome carries
\* the rules the call leaves in the plan and the set it warns about.
verify_tp_plan(expected_keys, tp_plan_arg, order) ==
    IF tp_plan_arg = None
      THEN [kind |-> "ok", plan |-> <<>>, unsharded_layers |-> {}]
      ELSE VerifyLoop(order, tp_plan_arg.rules, {Generic(key) : key \in expected_keys})

\* a plan argument: a dict of rules, or None
Dict(rules) == [kind |-> "dict", rules |-> rules]

\* the orders a set of names can be iterated in
Orders(S) ==
    {o \in [1..Cardinality(S) -> S] : \A i, j \in 1..Cardinality(S) : i # j => o[i] # o[j]}

\* ------------------------------------------ the plan functions on any name
NameChars == {"a", "1", "."}
KeyChars == {"a", "*", "."}

Words(chars, n) == UNION {[1..k -> chars] : k \in 1..n}

\* plans of no rule, one rule, or two rules of different styles
SmallPlans ==
    LET Keys == Words(KeyChars, MaxKeyLen)
    IN {<<>>}
         \cup {k :> t : k \in Keys, t \in {"colwise", "rowwise"}}
         \cup UNION {{(k1 :> "colwise") @@ (k2 :> "rowwise") : k2 \in Keys \ {k1}} :
                        k1 \in Keys}

RsInit ==
    /\ MIdle /\ ShIdle /\ FwIdle /\ BkIdle
    /\ pl_plan \in {Dict(p) : p \in SmallPlans}
    /\ pl_plan0 = pl_plan
    /\ pl_keys \in {{n} : n \in Words(NameChars, MaxNameLen)}
    /\ pl_out = None

\* plans of one rule whose key is the generic form of a whole parameter name
FullNamePlans ==
    {Generic(n) :> "colwise" : n \in Words(NameChars, MaxExpectedLen)}

VfInit ==
    /\ MIdle /\ ShIdle /\ FwIdle /\ BkIdle
    /\ pl_plan \in {Dict(p) : p \in SmallPlans \cup FullNamePlans} \cup {None}
    /\ pl_plan0 = pl_plan
    /\ pl_keys \in {{}} \cup {{n1, n2} : n1, n2 \in Words(NameChars, MaxExpectedLen)}
    /\ pl_out = None

\* _get_parameter_tp_plan(parameter_name, tp_plan)
GetParameterTpPlan(parameter_name) ==
    /\ pl_plan # None
    /\ pl_out' = [fn |-> "_get_parameter_tp_plan", arg |-> parameter_name, plan |-> pl_plan,
                  result |-> get_parameter_tp_plan(parameter_name, pl_plan.rules)]
    /\ UNCHANGED <<pl_plan, pl_plan0, pl_keys>>

\* verify_tp_plan(expected_keys, tp_plan)
VerifyTpPlan(order) ==
    LET r == verify_tp_plan(pl_keys, pl_plan, order)
    IN /\ pl_plan' = IF pl_plan = None THEN None ELSE Dict(r.plan)
       /\ pl_out' = [fn |-> "verify_tp_plan", arg |-> pl_keys, plan |-> pl_plan,
                     result |-> IF r.kind = "ok"
                                  THEN Ok([unused_rules |-> DOMAIN r.plan,
                                           unsharded_layers |-> r.unsharded_layers])
                                  ELSE Raise(r.kind)]
       /\ UNCHANGED <<pl_plan0, pl_keys>>

RsNext == \E parameter_name \in pl_keys : GetParameterTpPlan(parameter_name)

VfNext ==
    \/ \E parameter_name \in pl_keys : GetParameterTpPlan(parameter_name)
    \/ \E order \in Orders({Generic(key) : key \in pl_keys}) : VerifyTpPlan(order)

SpecResolve == RsInit /\ [][RsNext /\ UNCHANGED <<shvars, mvars, fwvars, bkvars>>]_vars

SpecVerify == VfInit /\ [][VfNext /\ UNCHANGED <<shvars, mvars, fwvars, bkvars>>]_vars

\* ------------------------------------- properties of the loaded model
Returned == ret # None /\ ret.result.kind = "ok"
RetModule == RSplit(ret.parameter_name)[1]
RetType == RSplit(ret.parameter_name)[2]
RetPlan == get_parameter_tp_plan(ret.parameter_name, tp_plan)

\* what the no-plan branch installs for the parameter of the last call
RetCastOnly ==
    Parameter(CastOnly(ModelParams[ret.parameter_name], load.param_casting_dtype,
                       load.is_contiguous), "local")

\* C1: after any sequence of shard_and_distribute_module calls every module
\* carries at most one forward-pre hook and at most one forward hook, and a
\* step never changes the hooks of a module that already has them.
C1_AtMostOneHookPair ==
    /\ [](\A m \in DOMAIN ModelModules : Len(hooks[m].pre) <= 1 /\ Len(hooks[m].fwd) <= 1)
    /\ [][\A m \in DOMAIN ModelModules : hooks[m].pre # <<>> => hooks'[m] = hooks[m]]_vars

\* the container has its hook pair and has been offered a second one: both
\* its own parameter and its child have run the installer
C1_Witness ==
    /\ Len(hooks[<<"b">>].pre) = 1 /\ Len(hooks[<<"b">>].fwd) = 1
    /\ is_hooked[<<"b">>] /\ is_hooked[<<"b", ".", "0">>]
    /\ <<"b">> \in DOMAIN tp_plan

\* C2: a "not implemented" raised while hooks are installed, on the owning
\* module or on its parent named in the plan, never propagates out of
\* shard_and_distribute_module: the call returns and the parameter is set.
C2_NotImplementedRecovered ==
    ret # None =>
        /\ ret.result.kind # "NotImplementedError"
        /\ attrs[RetModule][RetType] # None

\* C3: when the partition of the resolved style reports "not implemented"
\* (gather, local), the parameter a returning call installs is the full
\* tensor cast to the target type, contiguous when requested: the result of
\* the no-plan branch.
C3_NotImplementedPartitionCastOnly ==
    (Returned /\ RetPlan # None /\ RetPlan.value \in {"gather", "local"}) =>
        /\ ret.result.value = RetCastOnly
        /\ attrs[RetModule][RetType] = RetCastOnly

\* C4: for a parameter of an existing module that resolves to no rule the
\* call returns, and installs on the module's role attribute, the full
\* tensor cast to the target type; after every call that returns, the role
\* attribute holds the returned parameter.
C4_NoRuleCastOnlyInstalled ==
    /\ (ret # None /\ RetPlan = None) =>
          /\ ret.result.kind = "ok"
          /\ ret.result.value = RetCastOnly
    /\ Returned => attrs[RetModule][RetType] = ret.result.value

\* the parameters a module owns
ParamsOf(m) == {n \in DOMAIN ModelParams : RSplit(n)[1] = m}

\* the style tags the parameters of a module resolve to
TagsOf(m) ==
    {get_parameter_tp_plan(n, tp_plan).value :
        n \in {n \in ParamsOf(m) : get_parameter_tp_plan(n, tp_plan) # None}}

\* C19: hook installation does not depend on the order in which the
\* parameters of a module are processed.  Once shard_and_distribute_module has
\* set every parameter of a module that has several, of which at least one
\* resolves to a style (and all that resolve, to the same one), the module
\* carries the hook pair that style installs, also when the parameter
\* processed first resolves to no rule.
C19_HooksWhateverTheOrder ==
    \A m \in DOMAIN ModelModules :
        (/\ Cardinality(ParamsOf(m)) > 1
         /\ \A n \in ParamsOf(m) : attrs[m][RSplit(n)[2]] # None
         /\ Cardinality(TagsOf(m)) = 1) =>
            LET tag == CHOOSE t \in TagsOf(m) : TRUE
                fresh == HookState([k \in {m} |-> [pre |-> <<>>, fwd |-> <<>>]],
                                   [k \in {m} |-> FALSE])
                installed == prepare_module_tp(translate_to_torch_parallel_style(tag).value,
                                               fresh, m, ModelModules[m])
            IN installed.kind = "ok" => hooks[m] = installed.st.hooks[m]

\* --------------------------------------- properties of the plan functions
Resolved == pl_out # None /\ pl_out.fn = "_get_parameter_tp_plan"

\* name with every maximal digit run replaced by one wildcard: the pieces
\* kept are the non-digits and the first digit of each run
Wildcarded(name) ==
    LET Kept(i) == name[i] \notin Digits \/ i = 1 \/ name[i - 1] \notin Digits
        Pos(j) == CHOOSE i \in 1..Len(name) :
                     Kept(i) /\ Cardinality({h \in 1..i : Kept(h)}) = j
    IN [j \in 1..Cardinality({i \in 1..Len(name) : Kept(i)}) |->
           IF name[Pos(j)] \in Digits THEN "*" ELSE name[Pos(j)]]

\* name without its last "." and what follows it
WithoutLastSegment(name) ==
    SubSeq(name, 1, (CHOOSE i \in 1..Len(name) :
                        name[i] = "." /\ \A j \in (i + 1)..Len(name) : name[j] # ".") - 1)

\* C9: _get_parameter_tp_plan returns the tag of the generic name (every
\* maximal digit run replaced by the wildcard) when it is a plan key;
\* otherwise, when the generic name has a dot and the generic name without
\* its last segment is a plan key, that key's tag; otherwise no rule, even
\* when a higher ancestor is a key.  The plan is left as it was.
C9_PlanResolver ==
    Resolved =>
        LET g == Wildcarded(pl_out.arg)
            rules == pl_plan0.rules
        IN /\ IF g \in DOMAIN rules
                THEN pl_out.result = Ok(rules[g])
              ELSE IF (\E i \in 1..Len(g) : g[i] = ".") /\ WithoutLastSegment(g) \in DOMAIN rules
                THEN pl_out.result = Ok(rules[WithoutLastSegment(g)])
              ELSE pl_out.result = None
           /\ pl_plan = pl_plan0

\* a name with a digit run of two resolved through its parent
C9_Witness ==
    /\ Resolved
    /\ \E i \in 1..(Len(pl_out.arg) - 1) : pl_out.arg[i] \in Digits /\ pl_out.arg[i + 1] \in Digits
    /\ Wildcarded(pl_out.arg) \notin DOMAIN pl_plan0.rules
    /\ pl_out.result.kind = "ok"

\* C10: verify_tp_plan never raises, whatever the expected names and the plan.
C10_VerifyNeverRaises ==
    (pl_out # None /\ pl_out.fn = "verify_tp_plan") => pl_out.result.kind = "ok"

\* the call of verify_tp_plan that returned last
Verified ==
    pl_out # None /\ pl_out.fn = "verify_tp_plan" /\ pl_out.plan # None
        /\ pl_out.result.kind = "ok"

\* the plan key the Plan Resolver's rule matches a name with: the generic
\* name, else the generic name without its last segment, else none
MatchedKeys(name, rules) ==
    LET g == Wildcarded(name)
    IN IF g \in DOMAIN rules THEN {g}
       ELSE IF (\E i \in 1..Len(g) : g[i] = ".") /\ WithoutLastSegment(g) \in DOMAIN rules
         THEN {WithoutLastSegment(g)}
       ELSE {}

\* C11: the set verify_tp_plan reports as unsharded layers is exactly the
\* set of generic expected names for which _get_parameter_tp_plan, run on the
\* plan as it was passed, returns no rule: a name matched by an exact key that
\* includes the role suffix is not reported, and names resolving to the same
\* key are not reported.
C11_UnshardedAsResolver ==
    Verified =>
        pl_out.result.value.unsharded_layers =
            {g \in {Generic(key) : key \in pl_out.arg} :
                get_parameter_tp_plan(g, pl_out.plan.rules) = None}

\* C12: the set verify_tp_plan reports as unused rules is exactly the set of
\* keys of the plan, as it was passed, that no expected name matches.
C12_UnusedAsUnmatched ==
    Verified =>
        pl_out.result.value.unused_rules =
            {k \in DOMAIN pl_out.plan.rules :
                \A key \in pl_out.arg : k \notin MatchedKeys(key, pl_out.plan.rules)}

\* C13: the plan is never modified: after any sequence of calls it holds the
\* keys and tags it was built with.
C13_PlanImmutable == pl_plan = pl_plan0

\* ------------------------------------------------------- specifications
Init == MInit /\ ShIdle /\ PlIdle /\ FwIdle /\ BkIdle

Next == MNext /\ UNCHANGED <<shvars, plvars, fwvars, bkvars>>

Spec == Init /\ [][Next]_vars

====
